---- MODULE Spec2Model ----
(***************************************************************************)
(* Model of the two build scripts of harmoniq's key classifier:            *)
(*   make_key_tflite.py   analytic 12x24 template classifier               *)
(*   train_key_tflite.py  synthetic data, 12-64-24 network, export         *)
(*                                                                         *)
(* Numbers.  float32 values are modelled in fixed point:                   *)
(*   - the profile literals in hundredths (6.35 -> 635);                   *)
(*   - the L2-normalised profiles in units of 1/ProfileScale (1e-4);       *)
(*   - the synthetic mixture in units of 1/MixScale (1e-6), so that the    *)
(*     clip floor 1e-6 is the integer 1;                                   *)
(*   - the returned sample as the exact quotient num[j]/den.               *)
(* Vectors are 12-element sequences; the source's index j is j+1 here      *)
(* (see At).                                                               *)
(***************************************************************************)
EXTENDS Integers, Sequences, FiniteSets, TLC

VARIABLES
    pc,             \* position of the running script / function
    i, W, b,        \* make_key_tflite.py: loop index, weight matrix, bias
    x, logits,      \* model_fn: input row and the 24 scores returned
    dirSt, fileSt,  \* assets/models and assets/models/key_small.tflite
    fileInit,       \* what was at the artifact path when the run started
    printed,        \* the path has been printed to stdout
    err,            \* the step that raised, "" while none has
    script,         \* which program is running
    fed,            \* key class whose rotated profile is in x, -1 if none
    cls, base, mix, \* synth_sample: argument, rotated profile, mixture
    nleft,          \* synth_sample: iterations of the triad loop still to run
    sample,         \* synth_sample: the returned vector, as num[j]/den
    nTri,           \* history: chord_vec calls made for this sample
    leadVec,        \* history: energy added to mix by leading-tone coloration
    subVec,         \* history: energy added to mix by subdominant coloration
    lastTri,        \* history: degree-table index drawn by the last chord_vec
    lastTriAdd,     \* history: energy added to mix by that triad's tones
    n_per_class,    \* make_dataset: argument
    c, drawn,       \* make_dataset: class loop index, samples drawn for class c
    xs, ys,         \* make_dataset: samples and labels, in step
    genYs,          \* history: class each sample was generated for, by sample
    train, val,     \* make_dataset: the two partitions returned
    epoch,          \* fit: epochs completed
    lr,             \* optimizer learning rate, in units of 1e-8
    weights,        \* model weights, named by the epoch that produced them
    stop_training,  \* model.stop_training
    es_best, es_wait, es_best_weights,   \* EarlyStopping fields
    rl_best, rl_wait,                    \* ReduceLROnPlateau fields
    frozen,         \* W1,b1,W2,b2 read for export, -1 before that
    hMax,           \* history: best validation accuracy seen, -1 if none
    hArgmax,        \* history: first epoch that reached hMax
    hRun,           \* history: latest epochs in a row that did not beat hMax
    hHalved         \* history: learning-rate changes during those epochs

vars == <<pc, i, W, b, x, logits, dirSt, fileSt, fileInit, printed, err,
          script, fed, cls, base, mix, nleft, sample, nTri, leadVec, subVec,
          lastTri, lastTriAdd, n_per_class, c, drawn, xs, ys, genYs, train, val,
          epoch, lr, weights, stop_training, es_best, es_wait,
          es_best_weights, rl_best, rl_wait, frozen, hMax, hArgmax, hRun,
          hHalved>>

dataVars == <<n_per_class, c, drawn, xs, ys, genYs, train, val>>
fitVars == <<epoch, lr, weights, stop_training, es_best, es_wait,
             es_best_weights, rl_best, rl_wait, hMax, hArgmax, hRun, hHalved>>
trainVars == <<fitVars, frozen>>

synthVars == <<cls, base, mix, nleft, sample>>
synthHist == <<nTri, leadVec, subVec, lastTri, lastTriAdd>>

makeVars == <<i, W, b>>
inferVars == <<x, logits, fed>>
fsVars == <<dirSt, fileSt, printed>>

-----------------------------------------------------------------------------
(* Program constants *)

NumBins    == 12
NumClasses == 24
ProfileScale == 10000
MixScale     == 1000000

Bins    == 0 .. (NumBins - 1)
Classes == 0 .. (NumClasses - 1)

(* v[j] with the source's 0-based index *)
At(v, j) == v[j + 1]

Zeros12 == [j \in 1 .. NumBins |-> 0]

RECURSIVE SumSeq(_)
SumSeq(v) == IF v = <<>> THEN 0 ELSE Head(v) + SumSeq(Tail(v))

(* sum_j a[j]*b[j] *)
Dot(u, v) == SumSeq([j \in 1 .. NumBins |-> u[j] * v[j]])

(* floor(sqrt(n)) by bisection on [lo, hi) *)
RECURSIVE ISqrtIn(_, _, _)
ISqrtIn(n, lo, hi) ==
    IF hi - lo <= 1 THEN lo
    ELSE LET mid == (lo + hi) \div 2
         IN  IF mid * mid <= n THEN ISqrtIn(n, mid, hi) ELSE ISqrtIn(n, lo, mid)

ISqrt(n) == ISqrtIn(n, 0, 46341)

(* v / np.linalg.norm(v): v in hundredths, result in 1/ProfileScale.      *)
(* The norm is taken in thousandths (sqrt of the sum of squares * 100).   *)
L2Normalize(v) ==
    LET nrm == ISqrt(Dot(v, v) * 100)
    IN  [j \in 1 .. NumBins |-> (v[j] * 10 * ProfileScale) \div nrm]

maj_lit  == <<635, 223, 348, 233, 438, 409, 252, 519, 239, 366, 229, 288>>
minr_lit == <<633, 268, 352, 538, 260, 353, 254, 475, 398, 269, 334, 317>>

maj  == L2Normalize(maj_lit)
minr == L2Normalize(minr_lit)

(* rot with the two slices swapped: a right rotation *)
rot_right(v, r) ==
    LET rr == r % 12
    IN  SubSeq(v, NumBins - rr + 1, NumBins) \o SubSeq(v, 1, NumBins - rr)

(* def rot(v,r): r%=12; return np.concatenate([v[r:],v[:r]])             *)
(* (the same text in both scripts)                                        *)
rot(v, r) ==
    LET rr == r % 12
    IN  SubSeq(v, rr + 1, NumBins) \o SubSeq(v, 1, rr)

-----------------------------------------------------------------------------
(* make_key_tflite.py *)

(* W=np.zeros((12,24)); column k of W is W[k] here *)
WZero == [k \in Classes |-> Zeros12]
bZero == [k \in Classes |-> 0]

(* BuildColumn with the parity test dropped: every column from maj *)
BuildColumn_nomode(kc) == rot(maj, kc \div 2)

(* r=i//2; tm=maj if (i%2)==0 else minr; W[:,i]=rot(tm,r) *)
BuildColumn(k) ==
    LET r  == k \div 2
        tm == IF (k % 2) = 0 THEN maj ELSE minr
    IN  rot(tm, r)

(* for i in range(24): one iteration of the loop body *)
BuildW ==
    /\ pc = "build"
    /\ i < NumClasses
    /\ W' = [W EXCEPT ![i] = BuildColumn(i)]
    /\ i' = i + 1
    /\ UNCHANGED <<pc, b, inferVars, fsVars, fileInit, err, script,
                   synthVars, synthHist, dataVars, trainVars>>

(* the loop is exhausted; Wc, bc are frozen and model_fn is defined *)
Freeze ==
    /\ pc = "build"
    /\ i = NumClasses
    /\ pc' = "concrete"
    /\ UNCHANGED <<makeVars, inferVars, fsVars, fileInit, err, script,
                   synthVars, synthHist, dataVars, trainVars>>

(* model_fn(x): {'logits': matmul(x,Wc)+bc} *)
model_fn(xx, Wc, bc) == [k \in Classes |-> Dot(xx, Wc[k]) + bc[k]]

-----------------------------------------------------------------------------
(* Export: the last six lines of both scripts (make_key_tflite.py 11-16,  *)
(* train_key_tflite.py 55-60)                                             *)

(* concrete=model_fn.get_concrete_function() *)
GetConcrete ==
    /\ pc = "concrete"
    /\ pc' = "convert"
    /\ UNCHANGED <<makeVars, inferVars, fsVars, fileInit, err, script,
                   synthVars, synthHist, dataVars, trainVars>>

(* conv=...from_concrete_functions([concrete]); tfl=conv.convert() *)
Convert ==
    /\ pc = "convert"
    /\ pc' = "mkdir"
    /\ UNCHANGED <<makeVars, inferVars, fsVars, fileInit, err, script,
                   synthVars, synthHist, dataVars, trainVars>>

(* out=pathlib.Path('assets/models'); out.mkdir(parents=True,exist_ok=True) *)
Mkdir ==
    /\ pc = "mkdir"
    /\ dirSt' = "present"
    /\ pc' = "open"
    /\ UNCHANGED <<makeVars, inferVars, fileSt, printed, fileInit, err, script,
                   synthVars, synthHist, dataVars, trainVars>>

(* write_bytes opens the path with mode 'wb': the file is created, or     *)
(* truncated to length 0 when it exists, before any byte is written       *)
OpenTrunc ==
    /\ pc = "open"
    /\ fileSt' = "empty"
    /\ pc' = "write"
    /\ UNCHANGED <<makeVars, inferVars, dirSt, printed, fileInit, err, script,
                   synthVars, synthHist, dataVars, trainVars>>

(* ... and then writes tfl and closes *)
WriteBytes ==
    /\ pc = "write"
    /\ fileSt' = "complete"
    /\ pc' = "print"
    /\ UNCHANGED <<makeVars, inferVars, dirSt, printed, fileInit, err, script,
                   synthVars, synthHist, dataVars, trainVars>>

(* print(str(out/'key_small.tflite')) *)
PrintPath ==
    /\ pc = "print"
    /\ printed' = TRUE
    /\ pc' = "done"
    /\ UNCHANGED <<makeVars, inferVars, dirSt, fileSt, fileInit, err, script,
                   synthVars, synthHist, dataVars, trainVars>>

(* A step before the file is opened raises (tracing, conversion, mkdir,   *)
(* or the open itself): the script has no handler, the run ends there     *)
StepRaises ==
    /\ pc \in {"concrete", "convert", "mkdir", "open"}
    /\ err' = pc
    /\ pc' = "failed"
    /\ UNCHANGED <<makeVars, inferVars, fsVars, fileInit, script,
                   synthVars, synthHist, dataVars, trainVars>>

(* The write raises after the open (disk full, I/O error): some prefix of *)
(* tfl, possibly none of it, has reached the file                         *)
WriteRaises ==
    /\ pc = "write"
    /\ \E st \in {"empty", "partial"} : fileSt' = st
    /\ err' = "write"
    /\ pc' = "failed"
    /\ UNCHANGED <<makeVars, inferVars, dirSt, printed, fileInit, script,
                   synthVars, synthHist, dataVars, trainVars>>

(* The exported analytic graph run on the noise-free profile of class k   *)
Infer ==
    /\ pc = "done"
    /\ script = "make"
    /\ fileSt = "complete"
    /\ \E k \in Classes :
          /\ x' = BuildColumn(k)
          /\ fed' = k
          /\ logits' = model_fn(BuildColumn(k), W, b)
    /\ UNCHANGED <<pc, makeVars, fsVars, fileInit, err, script,
                   synthVars, synthHist, dataVars, trainVars>>

ExportNext ==
    \/ GetConcrete
    \/ Convert
    \/ Mkdir
    \/ OpenTrunc
    \/ WriteBytes
    \/ PrintPath
    \/ StepRaises
    \/ WriteRaises


-----------------------------------------------------------------------------
(* train_key_tflite.py: profiles, chord_vec, synth_sample *)

maj_t == L2Normalize(maj_lit)
min_t == L2Normalize(minr_lit)

maj_degrees == << <<0,4,7>>, <<2,5,9>>, <<4,7,11>>, <<5,9,0>>,
                  <<7,11,2>>, <<9,0,4>>, <<11,2,5>> >>
min_degrees == << <<0,3,7>>, <<2,5,8>>, <<3,7,10>>, <<5,8,0>>,
                  <<7,10,2>>, <<8,0,3>>, <<10,2,5>> >>

(* Draws explored for the random sources *)
MaxTriadIdx == 2                       \* random.choice(degs): entries 1..MaxTriadIdx
ScaleDraws  == {80, 120}               \* random.uniform(0.8,1.2), in hundredths
SmearDraws  == {-2, -1, 1, 2}          \* random.choice([-2,-1,1,2])
NoiseMax    == 49999                   \* 0.05*rand() < 0.05, in 1/MixScale
NoiseDraws  == { [j \in 1 .. NumBins |-> 0],
                 [j \in 1 .. NumBins |-> NoiseMax],
                 [j \in 1 .. NumBins |-> IF j % 2 = 0 THEN NoiseMax ELSE 0] }
TriadDraws  == 1 .. (IF MaxTriadIdx < 7 THEN MaxTriadIdx ELSE 7)

(* chord_vec with the leading tone at full weight (1.0 instead of 0.7) *)
chord_vec_lead1(root, is_maj, t, lt, sd) ==
    LET degs == IF is_maj THEN maj_degrees ELSE min_degrees
        tri  == degs[t]
        v1   == [j \in 1 .. NumBins |->
                   10 * Cardinality({q \in 1 .. 3 : (root + tri[q]) % 12 = j - 1})]
        lb   == (root + (IF is_maj THEN 11 ELSE 10)) % 12
        v2   == IF lt THEN [v1 EXCEPT ![lb + 1] = @ + 10] ELSE v1
        sb   == (root + 5) % 12
    IN  IF sd THEN [v2 EXCEPT ![sb + 1] = @ + 4] ELSE v2

(* chord_vec(root,is_maj) with its three random outcomes made explicit:   *)
(* t the index drawn from degs, lt = (random()<0.35), sd = (random()<0.25)*)
(* The result is in tenths (1.0 -> 10, 0.7 -> 7, 0.4 -> 4).               *)
chord_vec(root, is_maj, t, lt, sd) ==
    LET degs == IF is_maj THEN maj_degrees ELSE min_degrees
        tri  == degs[t]
        v1   == [j \in 1 .. NumBins |->
                   10 * Cardinality({q \in 1 .. 3 : (root + tri[q]) % 12 = j - 1})]
        lb   == (root + (IF is_maj THEN 11 ELSE 10)) % 12
        v2   == IF lt THEN [v1 EXCEPT ![lb + 1] = @ + 7] ELSE v1
        sb   == (root + 5) % 12
    IN  IF sd THEN [v2 EXCEPT ![sb + 1] = @ + 4] ELSE v2

(* np.roll(v,k): element j moves to (j+k) mod 12 *)
roll(v, k) == [j \in 1 .. NumBins |-> v[((j - 1 - k) % 12) + 1]]

(* 0.7*chord_vec(...) in 1/MixScale *)
ChordEnergy(v) == [j \in 1 .. NumBins |-> 7 * v[j] * (MixScale \div 100)]

VecAdd(u, v) == [j \in 1 .. NumBins |-> u[j] + v[j]]
VecSub(u, v) == [j \in 1 .. NumBins |-> u[j] - v[j]]

ClipFloor == 1                         \* 1e-6 in 1/MixScale

(* np.clip(mix,1e-6,None) *)
clip(v) == [j \in 1 .. NumBins |-> IF v[j] < ClipFloor THEN ClipFloor ELSE v[j]]

RECURSIVE MaxSeq(_)
MaxSeq(v) == IF Len(v) = 1 THEN v[1]
             ELSE LET m == MaxSeq(Tail(v)) IN IF Head(v) > m THEN Head(v) ELSE m

(* normalize dividing by the largest entry instead of the sum *)
normalize_max(v) == [num |-> v, den |-> MaxSeq(v)]

(* mix/np.sum(mix), kept as an exact quotient *)
normalize(v) == [num |-> v, den |-> SumSeq(v)]

(* line 17: r=cls//2; is_maj=(cls%2)==0; base=rot(maj_t if is_maj else min_t,r) *)
SynthBase ==
    /\ pc = "s17"
    /\ base' = rot(IF (cls % 2) = 0 THEN maj_t ELSE min_t, cls \div 2)
    /\ pc' = "s18"
    /\ UNCHANGED <<makeVars, inferVars, fsVars, fileInit, err, script,
                   dataVars, trainVars, cls, mix, nleft, sample, synthHist>>

(* line 18: mix=base*random.uniform(0.8,1.2) *)
SynthScale ==
    /\ pc = "s18"
    /\ \E u \in ScaleDraws :
          mix' = [j \in 1 .. NumBins |-> base[j] * u * (MixScale \div (ProfileScale * 100))]
    /\ pc' = "s19"
    /\ UNCHANGED <<makeVars, inferVars, fsVars, fileInit, err, script,
                   dataVars, trainVars, cls, base, nleft, sample, synthHist>>

(* line 19: range(random.randint(1,3)) is evaluated once *)
SynthLoopEnter ==
    /\ pc = "s19"
    /\ \E n \in 1 .. 3 : nleft' = n
    /\ pc' = "loop"
    /\ UNCHANGED <<makeVars, inferVars, fsVars, fileInit, err, script,
                   dataVars, trainVars, cls, base, mix, sample, synthHist>>

(* line 19, one iteration: mix+=0.7*chord_vec(r,is_maj) *)
SynthChord ==
    /\ pc = "loop"
    /\ nleft > 0
    /\ \E t \in TriadDraws, lt \in BOOLEAN, sd \in BOOLEAN :
          LET r      == cls \div 2
              is_maj == (cls % 2) = 0
              v      == chord_vec(r, is_maj, t, lt, sd)
              vTri   == chord_vec(r, is_maj, t, FALSE, FALSE)
              vLead  == chord_vec(r, is_maj, t, lt, FALSE)
          IN  /\ mix' = VecAdd(mix, ChordEnergy(v))
              /\ lastTri' = t
              /\ lastTriAdd' = ChordEnergy(vTri)
              /\ leadVec' = VecAdd(leadVec, ChordEnergy(VecSub(vLead, vTri)))
              /\ subVec' = VecAdd(subVec, ChordEnergy(VecSub(v, vLead)))
    /\ nleft' = nleft - 1
    /\ nTri' = nTri + 1
    /\ UNCHANGED <<pc, makeVars, inferVars, fsVars, fileInit, err, script,
                   dataVars, trainVars, cls, base, sample>>

(* line 20: mix+=0.15*np.roll(base,choice); mix+=0.05*np.random.rand(12) *)
SynthSmearNoise ==
    /\ pc = "loop"
    /\ nleft = 0
    /\ \E k \in SmearDraws, nz \in NoiseDraws :
          LET rb == roll(base, k)
              sm == [j \in 1 .. NumBins |->
                       15 * rb[j] * (MixScale \div (ProfileScale * 100))]
          IN  mix' = VecAdd(VecAdd(mix, sm), nz)
    /\ pc' = "s21"
    /\ UNCHANGED <<makeVars, inferVars, fsVars, fileInit, err, script,
                   dataVars, trainVars, cls, base, nleft, sample, synthHist>>

(* line 21: mix=np.clip(mix,1e-6,None); mix=mix/np.sum(mix); return mix *)
SynthReturn ==
    /\ pc = "s21"
    /\ mix' = clip(mix)
    /\ sample' = normalize(clip(mix))
    /\ pc' = "returned"
    /\ UNCHANGED <<makeVars, inferVars, fsVars, fileInit, err, script,
                   dataVars, trainVars, cls, base, nleft, synthHist>>

-----------------------------------------------------------------------------
(* train_key_tflite.py: make_dataset *)

MaxPerClass == 2                       \* n_per_class values explored: 0..MaxPerClass
MaxShift    == 3                       \* offsets of the shuffles explored

(* tf.keras.utils.to_categorical(y,24) for one label, and its inverse *)
to_categorical(y) == [j \in Classes |-> IF j = y THEN 1 ELSE 0]
LabelOf(row) == CHOOSE j \in Classes : row[j] = 1

(* the split point with the integer division taken first *)
SplitPoint_divfirst(n) == 9 * (n \div 10)

(* int(0.9*n): 0.9*n differs from 9n/10 by less than 1e-11 and 9n/10 is    *)
(* an integer or at least 0.1 away from one, so truncation gives 9n div 10 *)
SplitPoint(n) == (9 * n) \div 10

(* Outcomes explored for np.random.shuffle(idx): p -> a*p + r (mod n),    *)
(* kept when it is a permutation of 0..n-1; source position of slot p     *)
ShuffleDraws(n) ==
    { f \in { [p \in 1 .. n |-> ((a * (p - 1) + r) % n) + 1] :
                 a \in {1, 5, 7, n - 1}, r \in 0 .. MaxShift } :
        Cardinality({f[p] : p \in 1 .. n}) = n }

(* v[idx] *)
Take(v, idx) == [p \in 1 .. Len(idx) |-> v[idx[p]]]

(* lines 24-25, one pass of the inner body:                               *)
(* xs.append(synth_sample(c)); ys.append(c).  The vector synth_sample     *)
(* returns is named by the call that made it.                             *)
GenSample ==
    /\ pc = "gen"
    /\ c < NumClasses
    /\ drawn < n_per_class
    /\ xs' = Append(xs, [call |-> Len(xs) + 1, of |-> c])
    /\ ys' = Append(ys, c)
    /\ genYs' = Append(genYs, c)
    /\ drawn' = drawn + 1
    /\ UNCHANGED <<pc, makeVars, inferVars, fsVars, fileInit, err, script,
                   synthVars, synthHist, n_per_class, c, train, val, trainVars>>

(* the inner range(n_per_class) is exhausted: next c *)
GenNextClass ==
    /\ pc = "gen"
    /\ c < NumClasses
    /\ drawn = n_per_class
    /\ c' = c + 1
    /\ drawn' = 0
    /\ UNCHANGED <<pc, makeVars, inferVars, fsVars, fileInit, err, script,
                   synthVars, synthHist, n_per_class, xs, ys, genYs, train, val,
                   trainVars>>

(* line 26: xs=np.array(xs); ys=to_categorical(np.array(ys),24) *)
ToArrays ==
    /\ pc = "gen"
    /\ c = NumClasses
    /\ ys' = [p \in 1 .. Len(ys) |-> to_categorical(ys[p])]
    /\ pc' = "shuffle"
    /\ UNCHANGED <<makeVars, inferVars, fsVars, fileInit, err, script,
                   synthVars, synthHist, n_per_class, c, drawn, xs, genYs, train, val,
                   trainVars>>

(* line 27: idx=np.arange(n); np.random.shuffle(idx); xs=xs[idx]; ys=ys[idx] *)
Shuffle ==
    /\ pc = "shuffle"
    /\ \E idx \in ShuffleDraws(Len(xs)) :
          /\ xs' = Take(xs, idx)
          /\ ys' = Take(ys, idx)
    /\ pc' = "split"
    /\ UNCHANGED <<makeVars, inferVars, fsVars, fileInit, err, script,
                   synthVars, synthHist, n_per_class, c, drawn, genYs, train, val,
                   trainVars>>

(* line 28: n=int(0.9*xs.shape[0]); return (xs[:n],ys[:n]),(xs[n:],ys[n:]) *)
Split ==
    /\ pc = "split"
    /\ LET n == SplitPoint(Len(xs))
       IN  /\ train' = [x |-> SubSeq(xs, 1, n), y |-> SubSeq(ys, 1, n)]
           /\ val' = [x |-> SubSeq(xs, n + 1, Len(xs)), y |-> SubSeq(ys, n + 1, Len(ys))]
    /\ pc' = "dataset"
    /\ UNCHANGED <<makeVars, inferVars, fsVars, fileInit, err, script,
                   synthVars, synthHist, n_per_class, c, drawn, xs, ys, genYs,
                   trainVars>>

NextDataset ==
    \/ GenSample
    \/ GenNextClass
    \/ ToArrays
    \/ Shuffle
    \/ Split

-----------------------------------------------------------------------------
(* train_key_tflite.py: model.fit with its two callbacks.  The callbacks  *)
(* are Keras classes; what is modelled is their on_epoch_end as          *)
(* configured by the constructor calls of line 38.                        *)

Epochs      == 20                      \* epochs=20
InitLr      == 300000                  \* Adam(3e-3), in units of 1e-8
MinLr       == 5000                    \* min_lr=5e-5, in units of 1e-8
RlPatience  == 3                       \* ReduceLROnPlateau patience=3
EsPatience  == 6                       \* EarlyStopping patience=6
DefaultPerClass == 1200                \* make_dataset(n_per_class=1200)

(* Size of the validation partition that val_accuracy is averaged over *)
ValCount == NumClasses * DefaultPerClass - SplitPoint(NumClasses * DefaultPerClass)

(* val_accuracy is hits/ValCount; the values of hits explored *)
MaxAcc   == 4
AccDraws == 0 .. MaxAcc

(* "best" before any epoch: -inf, below every accuracy *)
NegInf == -1
None   == -1

(* ReduceLROnPlateau that does not reset wait after it reduces *)
ReduceLROnPlateau_noreset(st, hits) ==
    IF hits * 10000 > st.best * 10000 + ValCount
    THEN [best |-> hits, wait |-> 0, lr |-> st.lr]
    ELSE IF st.wait + 1 >= RlPatience
         THEN IF st.lr > MinLr
              THEN [best |-> st.best, wait |-> st.wait + 1,
                    lr |-> IF st.lr \div 2 > MinLr THEN st.lr \div 2 ELSE MinLr]
              ELSE [best |-> st.best, wait |-> st.wait + 1, lr |-> st.lr]
         ELSE [best |-> st.best, wait |-> st.wait + 1, lr |-> st.lr]

(* ReduceLROnPlateau whose patience is longer than the early stopper's *)
ReduceLROnPlateau_slow(st, hits) ==
    IF hits * 10000 > st.best * 10000 + ValCount
    THEN [best |-> hits, wait |-> 0, lr |-> st.lr]
    ELSE IF st.wait + 1 >= EsPatience + 1
         THEN IF st.lr > MinLr
              THEN [best |-> st.best, wait |-> 0,
                    lr |-> IF st.lr \div 2 > MinLr THEN st.lr \div 2 ELSE MinLr]
              ELSE [best |-> st.best, wait |-> st.wait + 1, lr |-> st.lr]
         ELSE [best |-> st.best, wait |-> st.wait + 1, lr |-> st.lr]

(* ReduceLROnPlateau(monitor='val_accuracy',factor=0.5,patience=3,        *)
(* min_lr=5e-5).on_epoch_end, with the defaults mode='auto' (max, for an  *)
(* accuracy), min_delta=1e-4, cooldown=0.  st = [best, wait, lr]; hits is *)
(* the validation accuracy times ValCount.                                *)
ReduceLROnPlateau(st, hits) ==
    IF hits * 10000 > st.best * 10000 + ValCount     \* current > best + 1e-4
    THEN [best |-> hits, wait |-> 0, lr |-> st.lr]
    ELSE IF st.wait + 1 >= RlPatience
         THEN IF st.lr > MinLr
              THEN [best |-> st.best, wait |-> 0,
                    lr |-> IF st.lr \div 2 > MinLr THEN st.lr \div 2 ELSE MinLr]
              ELSE [best |-> st.best, wait |-> st.wait + 1, lr |-> st.lr]
         ELSE [best |-> st.best, wait |-> st.wait + 1, lr |-> st.lr]

(* EarlyStopping with restore_best_weights left at its default False *)
EarlyStopping_norestore(st, hits) ==
    LET imp  == hits > st.best
        wt   == IF imp THEN 0 ELSE st.wait + 1
    IN  [best |-> IF imp THEN hits ELSE st.best, wait |-> wt,
         best_weights |-> None, stop |-> wt >= EsPatience,
         weights |-> st.weights]

(* EarlyStopping(monitor='val_accuracy',patience=6,                       *)
(* restore_best_weights=True).on_epoch_end, with the defaults mode='auto' *)
(* (max), min_delta=0, baseline=None.  st = [best, wait, best_weights,    *)
(* stop, weights]; weights is what the model holds after the epoch.       *)
EarlyStopping(st, hits) ==
    LET bw0  == IF st.best_weights = None THEN st.weights ELSE st.best_weights
        imp  == hits > st.best
        bst  == IF imp THEN hits ELSE st.best
        bw   == IF imp THEN st.weights ELSE bw0
        wt   == IF imp THEN 0 ELSE st.wait + 1
        halt == wt >= EsPatience
    IN  [best |-> bst, wait |-> wt, best_weights |-> bw,
         stop |-> halt,
         weights |-> IF halt THEN bw ELSE st.weights]

(* One epoch of model.fit: the training pass, the validation pass, then   *)
(* the callbacks' on_epoch_end in list order                              *)
Epoch ==
    /\ pc = "fit"
    /\ epoch < Epochs
    /\ ~stop_training
    /\ \E hits \in AccDraws :
          LET e   == epoch + 1
              rl  == ReduceLROnPlateau([best |-> rl_best, wait |-> rl_wait, lr |-> lr], hits)
              es  == EarlyStopping([best |-> es_best, wait |-> es_wait,
                                    best_weights |-> es_best_weights,
                                    stop |-> stop_training, weights |-> e], hits)
              imp == hits > hMax
          IN  /\ epoch' = e
              /\ rl_best' = rl.best
              /\ rl_wait' = rl.wait
              /\ lr' = rl.lr
              /\ es_best' = es.best
              /\ es_wait' = es.wait
              /\ es_best_weights' = es.best_weights
              /\ stop_training' = es.stop
              /\ weights' = es.weights
              /\ hMax' = IF imp THEN hits ELSE hMax
              /\ hArgmax' = IF imp THEN e ELSE hArgmax
              /\ hRun' = IF imp THEN 0 ELSE hRun + 1
              /\ hHalved' = IF imp THEN 0
                            ELSE IF rl.lr # lr THEN hHalved + 1 ELSE hHalved
    /\ UNCHANGED <<pc, makeVars, inferVars, fsVars, fileInit, err, script,
                   synthVars, synthHist, dataVars, frozen>>

(* fit returns: the epoch budget is used up or a callback asked to stop *)
FitReturns ==
    /\ pc = "fit"
    /\ epoch = Epochs \/ stop_training
    /\ pc' = "extract"
    /\ UNCHANGED <<makeVars, inferVars, fsVars, fileInit, err, script,
                   synthVars, synthHist, dataVars, trainVars>>

(* an epoch raises inside fit: the script has no handler *)
FitRaises ==
    /\ pc = "fit"
    /\ epoch < Epochs
    /\ ~stop_training
    /\ err' = "fit"
    /\ pc' = "failed"
    /\ UNCHANGED <<makeVars, inferVars, fsVars, fileInit, script,
                   synthVars, synthHist, dataVars, trainVars>>

(* lines 41-46: W1,b1=dense_layers[-2].get_weights(); W2,b2=...; constants *)
Extract ==
    /\ pc = "extract"
    /\ frozen' = weights
    /\ pc' = "concrete"
    /\ UNCHANGED <<makeVars, inferVars, fsVars, fileInit, err, script,
                   synthVars, synthHist, dataVars, fitVars>>

NextTrain ==
    \/ Epoch
    \/ FitReturns
    \/ FitRaises
    \/ Extract
    \/ ExportNext

-----------------------------------------------------------------------------
(* Initial states and specifications *)

IdleMake ==
    /\ i = 0
    /\ W = WZero
    /\ b = bZero
    /\ x = Zeros12
    /\ logits = bZero
    /\ fed = -1

IdleFs ==
    /\ dirSt = "absent"
    /\ fileSt = "absent"
    /\ fileInit = "absent"
    /\ printed = FALSE
    /\ err = ""

IdleSynth ==
    /\ cls = 0
    /\ base = Zeros12
    /\ mix = Zeros12
    /\ nleft = 0
    /\ sample = [num |-> Zeros12, den |-> 1]
    /\ nTri = 0
    /\ leadVec = Zeros12
    /\ subVec = Zeros12
    /\ lastTri = 0
    /\ lastTriAdd = Zeros12

IdleData ==
    /\ n_per_class = 0
    /\ c = 0
    /\ drawn = 0
    /\ xs = <<>>
    /\ ys = <<>>
    /\ genYs = <<>>
    /\ train = [x |-> <<>>, y |-> <<>>]
    /\ val = [x |-> <<>>, y |-> <<>>]

IdleTrain ==
    /\ epoch = 0
    /\ lr = InitLr
    /\ weights = 0
    /\ stop_training = FALSE
    /\ es_best = NegInf
    /\ es_wait = 0
    /\ es_best_weights = None
    /\ rl_best = NegInf
    /\ rl_wait = 0
    /\ frozen = -1
    /\ hMax = -1
    /\ hArgmax = 0
    /\ hRun = 0
    /\ hHalved = 0

(* The artifact path before the run: nothing there, or an earlier build *)
InitFs ==
    /\ dirSt \in {"absent", "present"}
    /\ fileSt \in {"absent", "old"}
    /\ dirSt = "absent" => fileSt = "absent"
    /\ fileInit = fileSt
    /\ printed = FALSE
    /\ err = ""

(* make_key_tflite.py from its first statement *)
InitMake ==
    /\ script = "make"
    /\ pc = "build"
    /\ IdleMake
    /\ InitFs
    /\ IdleSynth
    /\ IdleData
    /\ IdleTrain

NextMake ==
    \/ BuildW
    \/ Freeze
    \/ ExportNext
    \/ Infer

SpecMake == InitMake /\ [][NextMake]_vars

(* synth_sample(cls) entered with any of the 24 classes *)
InitSynth ==
    /\ script = "synth"
    /\ pc = "s17"
    /\ cls \in Classes
    /\ base = Zeros12
    /\ mix = Zeros12
    /\ nleft = 0
    /\ sample = [num |-> Zeros12, den |-> 1]
    /\ nTri = 0
    /\ leadVec = Zeros12
    /\ subVec = Zeros12
    /\ lastTri = 0
    /\ lastTriAdd = Zeros12
    /\ IdleMake
    /\ IdleFs
    /\ IdleData
    /\ IdleTrain

NextSynth ==
    \/ SynthBase
    \/ SynthScale
    \/ SynthLoopEnter
    \/ SynthChord
    \/ SynthSmearNoise
    \/ SynthReturn

SpecSynth == InitSynth /\ [][NextSynth]_vars

(* make_dataset(n_per_class) entered *)
InitDataset ==
    /\ script = "dataset"
    /\ pc = "gen"
    /\ n_per_class \in 0 .. MaxPerClass
    /\ c = 0
    /\ drawn = 0
    /\ xs = <<>>
    /\ ys = <<>>
    /\ genYs = <<>>
    /\ train = [x |-> <<>>, y |-> <<>>]
    /\ val = [x |-> <<>>, y |-> <<>>]
    /\ IdleMake
    /\ IdleFs
    /\ IdleSynth
    /\ IdleTrain

SpecDataset == InitDataset /\ [][NextDataset]_vars

(* train_key_tflite.py at model.fit(...), line 39 *)
InitTrain ==
    /\ script = "train"
    /\ pc = "fit"
    /\ IdleTrain
    /\ InitFs
    /\ IdleMake
    /\ IdleSynth
    /\ IdleData

SpecTrain == InitTrain /\ [][NextTrain]_vars

(* Both places that rotate a profile: the loop that fills W and line 17   *)
(* of synth_sample                                                        *)
InitProfiles == InitMake \/ InitSynth

NextProfiles == NextMake \/ NextSynth

SpecProfiles == InitProfiles /\ [][NextProfiles]_vars

-----------------------------------------------------------------------------
(* Properties *)

(* the base profile a key class selects, by file *)
baseProfile(kc)   == IF (kc % 2) = 0 THEN maj ELSE minr
baseProfile_t(kc) == IF (kc % 2) = 0 THEN maj_t ELSE min_t

(* C1: for every key class, entry j of the rotated profile (a column of W *)
(* already filled, or base in synth_sample) is entry (j + keyClass//2)    *)
(* mod 12 of the major profile for an even class, the minor for an odd.   *)
C1_RotatedIsLeftRotation ==
    /\ script = "make" =>
          \A kc \in Classes : kc < i =>
             \A j \in Bins :
                At(W[kc], j) = At(baseProfile(kc), (j + kc \div 2) % 12)
    /\ (script = "synth" /\ pc # "s17") =>
          \A j \in Bins :
             At(base, j) = At(baseProfile_t(cls), (j + cls \div 2) % 12)

C1_Witness == script = "make" /\ i = NumClasses /\ W[23] # Zeros12

(* C2: for every key class, the rotated profile carries the base          *)
(* profile's pitch-class-0 salience at index tonic = keyClass//2, the     *)
(* index at which chord_vec puts the root of the tonic triad.             *)
C2_TonicSalienceAtTonic ==
    script = "make" =>
       \A kc \in Classes : kc < i =>
          /\ At(W[kc], kc \div 2) = At(baseProfile(kc), 0)
          /\ At(chord_vec(kc \div 2, (kc % 2) = 0, 1, FALSE, FALSE), kc \div 2) = 10

(* C3: the analytic classifier fed the noise-free rotated profile of      *)
(* class fed scores that class strictly above each of the other 23.       *)
C3_SelfCorrelationWins ==
    fed # -1 => \A kc \in Classes \ {fed} : logits[fed] > logits[kc]

C3_Witness == fed = 23 /\ logits[23] > 0

(* C4: every entry of the vector synth_sample returns is at least 1e-6    *)
(* and the entries sum to 1.                                              *)
C4_FloorAndUnitSum ==
    pc = "returned" =>
       /\ sample.den > 0
       /\ \A j \in 1 .. NumBins :
             sample.num[j] >= (sample.den + MixScale - 1) \div MixScale
       /\ SumSeq(sample.num) = sample.den

C4_Witness == pc = "returned" /\ nTri = 3 /\ sample.den > 8 * MixScale

(* the calls whose samples a partition holds, and the size of 24*N *)
CallsOf(part) == {part.x[p].call : p \in 1 .. Len(part.x)}
Total == NumClasses * n_per_class

(* C5: make_dataset(N) generates 24N samples, N per class; train is the   *)
(* first int(0.9*24N) shuffled samples and validation the rest; the two   *)
(* are disjoint, their sizes sum to 24N, the train size is within 1 of    *)
(* 0.9*24N, together they hold every generated sample once, and every     *)
(* vector still has the label it was generated with.                      *)
C5_BalancedSplit ==
    pc = "dataset" =>
       /\ Len(genYs) = Total
       /\ \A cc \in Classes :
             Cardinality({p \in 1 .. Len(genYs) : genYs[p] = cc}) = n_per_class
       /\ Len(train.x) = (9 * Total) \div 10
       /\ Len(train.y) = Len(train.x)
       /\ Len(val.y) = Len(val.x)
       /\ Len(train.x) + Len(val.x) = Total
       /\ 10 * Len(train.x) - 9 * Total <= 10
       /\ 9 * Total - 10 * Len(train.x) <= 10
       /\ train.x \o val.x = xs
       /\ CallsOf(train) \cap CallsOf(val) = {}
       /\ CallsOf(train) \cup CallsOf(val) = 1 .. Total
       /\ \A p \in 1 .. Len(train.x) :
             LabelOf(train.y[p]) = genYs[train.x[p].call]
       /\ \A p \in 1 .. Len(val.x) :
             LabelOf(val.y[p]) = genYs[val.x[p].call]

C5_Witness ==
    /\ pc = "dataset"
    /\ n_per_class = 2
    /\ train.x[1].call # 1
    /\ Len(val.x) = 5

(* model.fit has returned *)
AfterFit == pc \notin {"fit", "failed"} \/ (pc = "failed" /\ err # "fit")

(* C6: training ends after at most 20 epochs; it is stopped exactly when  *)
(* validation accuracy has failed to beat its best for 6 epochs in a row, *)
(* no epoch runs after that, and the weights then read for export are     *)
(* those of the best epoch, not of the last.                              *)
C6_StopState ==
    script = "train" =>
       /\ epoch <= Epochs
       /\ stop_training <=> hRun >= EsPatience
       /\ hRun <= EsPatience
       /\ (AfterFit /\ epoch < Epochs) => stop_training
       /\ stop_training => (weights = hArgmax /\ hArgmax = epoch - EsPatience)
       /\ (stop_training /\ frozen # -1) => (frozen = hArgmax /\ frozen # epoch)

C6_EarlyStopping == [] C6_StopState /\ [][stop_training => epoch' = epoch]_vars

C6_Witness ==
    /\ pc = "done"
    /\ stop_training
    /\ epoch = 9
    /\ frozen = 3

(* C7: the learning rate starts at 3e-3, is halved at the end of each     *)
(* third epoch in a row without improvement and changed at no other time, *)
(* so it never rises, and it stays within [5e-5, 3e-3].                   *)
C7_LrRange ==
    /\ MinLr <= lr
    /\ lr <= InitLr
    /\ epoch = 0 => lr = InitLr

C7_LrStep ==
    IF hRun' # hRun /\ hRun' > 0 /\ hRun' % RlPatience = 0
    THEN 2 * lr' = lr
    ELSE lr' = lr

C7_LearningRate == [] C7_LrRange /\ [][C7_LrStep]_vars

C7_Witness == lr * 32 = InitLr /\ epoch = Epochs

(* C10: when early stopping ends training, the learning rate was halved   *)
(* once or twice during the last 6 epochs (or is at its floor), and it is *)
(* no longer 3e-3.                                                        *)
C10_HalvedBeforeStop ==
    stop_training =>
       /\ lr # InitLr
       /\ hHalved \in {1, 2} \/ lr = MinLr

C10_Witness == stop_training /\ hHalved = 2 /\ epoch = 7 /\ 4 * lr = InitLr

(* C8: when a step fails no partial artifact is left: the file at the     *)
(* artifact path is as it was before the run or is the complete graph;    *)
(* the path is printed only once the complete artifact is written.        *)
C8_NoPartialArtifact ==
    /\ pc = "failed" => fileSt \in {fileInit, "complete"}
    /\ printed => fileSt = "complete"

(* where the two colorations land for a key class *)
LeadBin(kc) == ((kc \div 2) + (IF (kc % 2) = 0 THEN 11 ELSE 10)) % 12
SubBin(kc)  == ((kc \div 2) + 5) % 12

(* v is zero except at bin, where it is one of vals *)
OnlyAt(v, bin, vals) ==
    \A j \in Bins : IF j = bin THEN At(v, j) \in vals ELSE At(v, j) = 0

(* the last triad mixed in put 0.7 on each of its three bins *)
TriadEnergy ==
    lastTri # 0 =>
       LET degs == IF (cls % 2) = 0 THEN maj_degrees ELSE min_degrees
       IN  \A j \in Bins :
              At(lastTriAdd, j) =
                 IF \E q \in 1 .. 3 : ((cls \div 2) + degs[lastTri][q]) % 12 = j
                 THEN (7 * MixScale) \div 10 ELSE 0

(* C9 as stated: per sample the leading-tone coloration adds 0 or 0.7 to  *)
(* its bin, the subdominant coloration 0 or 0.4 to its bin, however many  *)
(* triads are mixed in, and each triad adds 0.7 to each of its bins.      *)
C9_OneDrawPerSample ==
    pc = "returned" =>
       /\ OnlyAt(leadVec, LeadBin(cls), {0, (7 * MixScale) \div 10})
       /\ OnlyAt(subVec, SubBin(cls), {0, (4 * MixScale) \div 10})
       /\ TriadEnergy

(* C9 amended: each coloration is drawn once per triad mixed in and is    *)
(* scaled by 0.7 with it: after n triads the leading-tone coloration has  *)
(* added m*0.49 to its bin and the subdominant coloration m'*0.28 to its  *)
(* bin, for some m, m' in 0..n; each triad adds 0.7 to each of its bins.  *)
C9_OneDrawPerTriad ==
    script = "synth" =>
       /\ nTri <= 3
       /\ OnlyAt(leadVec, LeadBin(cls),
                 {m * ((49 * MixScale) \div 100) : m \in 0 .. nTri})
       /\ OnlyAt(subVec, SubBin(cls),
                 {m * ((28 * MixScale) \div 100) : m \in 0 .. nTri})
       /\ TriadEnergy

C9_Witness ==
    /\ pc = "returned"
    /\ nTri = 3
    /\ At(leadVec, LeadBin(cls)) = 3 * ((49 * MixScale) \div 100)
    /\ At(subVec, SubBin(cls)) = (28 * MixScale) \div 100

====
